---- MODULE Spec2Model ----
(***************************************************************************)
(* Model of pp_run.py: the command-line dispatcher (__main__) and the      *)
(* pipeline wrapper run_the_pipeline.  The five processing stages, the     *)
(* FITS reader, the diagnostics module and _pp_conf are collaborators:     *)
(* their results are inputs chosen from small sets.                        *)
(***************************************************************************)
EXTENDS Integers, Sequences, FiniteSets, TLC

\* ---------------------------------------------------------------- bounds
MaxDirs == 2
MaxFiles == 2

\* ------------------------------------------------------------- constants
None == "None"
Absent == "absent"
\* a local name before its first assignment
Unbound == "unbound"
ALL == <<"a", "l", "l">>
\* args.prefix when -prefix is not given
NoPrefix == <<None>>
\* the value of pp_calibrate.calibrate that is None
NoResult == [none |-> TRUE, zps |-> <<>>, catalogs |-> <<>>]
Master == 0

\* ------------------------------------------------------- sequence helpers
Range(s) == {s[i] : i \in 1..Len(s)}

RECURSIVE SelectIdx(_, _, _)
\* the subsequence of s at the positions in S that are >= i, in order
SelectIdx(s, S, i) ==
  IF i > Len(s) THEN <<>>
  ELSE IF i \in S THEN <<s[i]>> \o SelectIdx(s, S, i + 1)
       ELSE SelectIdx(s, S, i + 1)

SubSeqAt(s, S) == SelectIdx(s, S, 1)

\* list.pop(idx) with a 0-based idx
Pop(s, idx) == SubSeqAt(s, (1..Len(s)) \ {idx + 1})

SeqsUpTo(S, n) == UNION {[1..k -> S] : k \in 0..n}

Distinct(s) == \A i, j \in 1..Len(s) : i # j => s[i] # s[j]

\* ------------------------------------------------------------- file names
OrdTable ==
  { <<".", 46>>, <<"F", 70>>, <<"S", 83>>, <<"T", 84>>, <<"a", 97>>,
    <<"b", 98>>, <<"c", 99>>, <<"d", 100>>, <<"f", 102>>, <<"g", 103>>,
    <<"i", 105>>, <<"l", 108>>, <<"o", 111>>, <<"p", 112>>, <<"q", 113>>,
    <<"s", 115>>, <<"t", 116>> }

\* ord() of a character
Ord(c) == (CHOOSE p \in OrdTable : p[1] = c)[2]

RECURSIVE StrLess(_, _)
\* Python's < on str: lexicographic by code point
StrLess(a, b) ==
  IF Len(b) = 0 THEN FALSE
  ELSE IF Len(a) = 0 THEN TRUE
  ELSE IF Ord(Head(a)) < Ord(Head(b)) THEN TRUE
  ELSE IF Ord(Head(a)) > Ord(Head(b)) THEN FALSE
  ELSE StrLess(Tail(a), Tail(b))

RECURSIVE Insert(_, _)
Insert(x, s) ==
  IF Len(s) = 0 THEN <<x>>
  ELSE IF StrLess(x, Head(s)) THEN <<x>> \o s
  ELSE <<Head(s)>> \o Insert(x, Tail(s))

RECURSIVE sorted(_)
\* sorted(list) on a list of str
sorted(s) == IF Len(s) = 0 THEN <<>> ELSE Insert(Head(s), sorted(Tail(s)))

\* the character class [fits|FITS|Fits|fts|FTS] of the regular expression
SuffixClass == {"f", "i", "t", "s", "|", "F", "I", "T", "S"}

\* re.match('^' + prefix + '.*[fits|FITS|Fits|fts|FTS]$', s)
RegexMatch(prefix, s) ==
  /\ Len(s) >= Len(prefix) + 1
  /\ SubSeq(s, 1, Len(prefix)) = prefix
  /\ s[Len(s)] \in SuffixClass

RECURSIVE Filter(_, _)
\* [s for s in files if re.match(regex, s)]
Filter(prefix, files) ==
  IF Len(files) = 0 THEN <<>>
  ELSE IF RegexMatch(prefix, Head(files))
       THEN <<Head(files)>> \o Filter(prefix, Tail(files))
       ELSE Filter(prefix, Tail(files))

\* names that occur in the directory tree or on the command line
Names ==
  { <<"p", "b", ".", "f", "i", "t", "s">>,
    <<"p", "a", ".", "F", "T", "S">>,
    <<"p", "c", ".", "g", "i", "f">>,
    <<"p", "d", ".", "l", "o", "g">>,
    <<"q", "a", ".", "f", "i", "t", "s">> }

Prefixes == {<<"p">>}

\* the file lists os.walk can yield for one directory
Listings == {s \in SeqsUpTo(Names, MaxFiles) : Distinct(s)}

\* the image lists of the command line (nargs='+'): what a file holds is
\* decided when it is opened, so one list of each length is enough
ArgNames ==
  << <<"p", "b", ".", "f", "i", "t", "s">>, <<"p", "a", ".", "F", "T", "S">>,
     <<"q", "a", ".", "f", "i", "t", "s">>, <<"p", "c", ".", "g", "i", "f">> >>

ArgLists == {SubSeq(ArgNames, 1, k) : k \in 1..MaxFiles} \cup {<<ALL>>}

\* ---------------------------------------------------------------- _pp_conf
instrument_keys == <<"INSTRUME", "TELESCOP">>
filter_keys == <<"FILTER", "FILTER1">>
log_filename == "LOG"

\* _pp_conf.instrument_identifiers
instrument_identifiers == [t \in {"TEL1", "TEL2"} |-> IF t = "TEL1" THEN "T1" ELSE "T2"]

\* _pp_conf.telescope_parameters[telescope]['filter_translations']
filter_translations(telescope) ==
  IF telescope = "T1"
  THEN [f \in {"R", "clear"} |-> IF f = "R" THEN "R" ELSE None]
  ELSE [f \in {"R"} |-> "R"]

\* _pp_conf.setup_diagnostics(): paths derived from the working directory
setup_diagnostics(d) ==
  [ dataroot |-> <<d>>,
    diagroot |-> <<d, ".diagnostics">>,
    index_filename |-> <<d, "diagnostics.html">>,
    reg_filename |-> <<d, ".diagnostics", "registration.html">>,
    cal_filename |-> <<d, ".diagnostics", "calibration.html">>,
    res_filename |-> <<d, ".diagnostics", "results.html">> ]

\* the values the run context holds before the first run
ImportContext ==
  [ dataroot |-> <<>>, diagroot |-> <<>>, index_filename |-> <<>>,
    reg_filename |-> <<>>, cal_filename |-> <<>>, res_filename |-> <<>> ]

\* --------------------------------------------------------------- headers
Header(i1, i2, f1, f2) ==
  [INSTRUME |-> i1, TELESCOP |-> i2, FILTER |-> f1, FILTER1 |-> f2]

InstHeaders ==
  { <<"TEL1", Absent>>, <<"TEL2", Absent>>, <<"TELX", Absent>>,
    <<"TEL1", "TEL2">>, <<Absent, Absent>> }

FiltHeaders ==
  { <<"R", Absent>>, <<"clear", Absent>>, <<"R", "clear">>, <<Absent, Absent>> }

\* the primary headers a file can have
Headers == {Header(i[1], i[2], f[1], f[2]) : i \in InstHeaders, f \in FiltHeaders}

RECURSIVE TagsOf(_, _)
\* for key in keys: if key in header: tags.append(header[key])
TagsOf(header, keys) ==
  IF Len(keys) = 0 THEN <<>>
  ELSE IF header[Head(keys)] # Absent
       THEN <<header[Head(keys)]>> \o TagsOf(header, Tail(keys))
       ELSE TagsOf(header, Tail(keys))

\* ---------------------------------------------------------------- events
EvReset(d) == [e |-> "reset", cwd |-> d]
EvLog(to, lvl, msg, a, b) ==
  [e |-> "log", to |-> to, lvl |-> lvl, msg |-> msg, a |-> a, b |-> b]
EvOpen(f, ok, header) == [e |-> "open", file |-> f, ok |-> ok, header |-> header]
EvCall(stage, frames) == [e |-> "call", stage |-> stage, frames |-> frames]
EvRet(stage, result) == [e |-> "ret", stage |-> stage, result |-> result]
EvSummary(kind, k, n) == [e |-> "summary", kind |-> kind, k |-> k, n |-> n]
EvAbort(name) == [e |-> "abort", name |-> name]

\* ----------------------------------------------------------------- state
VARIABLES
  images,                   \* args.images
  prefix,                   \* args.prefix
  mainpc,                   \* position of the __main__ block
  cwd,                      \* os.getcwd()
  walkIdx,                  \* number of directories os.walk has yielded
  root,                     \* the directory of the current iteration
  files,                    \* the file list of the current iteration
  walked,                   \* per yielded directory: had it a matching file
  unreadable,               \* the data frames here that fits.open cannot open
  invoked,                  \* the directory of each run_the_pipeline call
  contexts,                 \* the run context each run set up for itself
  use_diagnostics_summary,  \* _pp_conf.use_diagnostics_summary
  pp_process_idx,           \* _pp_conf.pp_process_idx
  ctx,                      \* _pp_conf.dataroot, diagroot, *_filename
  rootHandlers,             \* targets of the root logger's handlers
  pc,                       \* position inside run_the_pipeline
  filenames,                \* the list run_the_pipeline works on
  it,                       \* index of the list iterator of the inspection loop
  instruments,
  filters,
  telescope,
  filtername,
  preparation,
  registration,
  phot,
  calibration,
  distillate,
  outcome,                  \* how the current run ended
  trace                     \* what the current run did, in order

mainvars ==
  <<images, prefix, mainpc, cwd, walkIdx, root, files, walked, unreadable>>
confvars == <<use_diagnostics_summary, pp_process_idx, ctx, rootHandlers>>
localvars == <<filenames, it, instruments, filters, telescope, filtername,
               preparation, registration, phot, calibration, distillate>>
vars == <<mainvars, invoked, contexts, confvars, pc, localvars, outcome, trace>>

\* no frame of run_the_pipeline exists
NoFrame ==
  /\ pc = "idle"
  /\ filenames = <<>> /\ it = 0
  /\ instruments = <<>> /\ filters = <<>>
  /\ telescope = Unbound /\ filtername = Unbound
  /\ preparation = Unbound /\ registration = Unbound
  /\ phot = Unbound /\ calibration = Unbound /\ distillate = Unbound
  /\ outcome = "none" /\ trace = <<>>

\* the frame of run_the_pipeline is dropped when the call returns
DropFrame ==
  /\ pc' = "idle"
  /\ filenames' = <<>> /\ it' = 0
  /\ instruments' = <<>> /\ filters' = <<>>
  /\ telescope' = Unbound /\ filtername' = Unbound
  /\ preparation' = Unbound /\ registration' = Unbound
  /\ phot' = Unbound /\ calibration' = Unbound /\ distillate' = Unbound
  /\ outcome' = "none" /\ trace' = <<>>

\* logging.basicConfig(filename=...): does nothing when the root logger
\* already has a handler
basicConfig(handlers, target) ==
  IF Len(handlers) = 0 THEN <<target>> ELSE handlers

Init ==
  /\ images \in ArgLists
  /\ prefix \in (IF images = <<ALL>> THEN Prefixes ELSE {}) \cup {NoPrefix}
  /\ mainpc = "start"
  /\ cwd = Master
  /\ walkIdx = 0 /\ root = Master /\ files = <<>>
  /\ unreadable \in (IF images = <<ALL>> /\ prefix # NoPrefix
                     THEN {{}} ELSE SUBSET Range(images))
  /\ walked = <<>> /\ invoked = <<>> /\ contexts = <<>>
  /\ use_diagnostics_summary \in BOOLEAN
  /\ pp_process_idx = 0
  /\ ctx = ImportContext
  /\ rootHandlers = basicConfig(<<>>, log_filename)
  /\ NoFrame

\* len(filenames) == 1 and filenames[0]=='all' and prefix is not None
BatchMode == Len(images) = 1 /\ images[1] = ALL /\ prefix # NoPrefix

\* ------------------------------------------------------------- __main__
\* the 'all' branch up to the start of the directory walk
MainBatch ==
  /\ mainpc = "start" /\ BatchMode
  /\ use_diagnostics_summary' = TRUE
  /\ mainpc' = "walk"
  /\ UNCHANGED <<images, prefix, cwd, walkIdx, root, files, walked, unreadable,
                 invoked,
                 contexts,
                 pp_process_idx, ctx, rootHandlers, pc, localvars, outcome,
                 trace>>

\* the else branch: run_the_pipeline(filenames) on the images given
MainSingle ==
  /\ mainpc = "start" /\ ~BatchMode
  /\ filenames' = images
  /\ invoked' = Append(invoked, root)
  /\ pc' = "entry"
  /\ mainpc' = "run"
  /\ UNCHANGED <<images, prefix, cwd, walkIdx, root, files, walked, unreadable,
                 contexts,
                 confvars, it, instruments, filters, telescope, filtername,
                 preparation, registration, phot, calibration, distillate,
                 outcome, trace>>

\* variant: a directory needs more than one frame to be run
HasDataOverOne(fns) == Len(fns) > 1

\* len(filenames) > 0
HasData(fns) == Len(fns) > 0

\* os.walk yields the next directory; its data frames are identified
WalkNext ==
  /\ mainpc = "walk" /\ walkIdx < MaxDirs
  /\ \E listing \in Listings :
       /\ files' = listing
       /\ filenames' = sorted(Filter(prefix, listing))
       /\ unreadable' \in SUBSET Range(filenames')
       /\ walked' = Append(walked,
                           [root |-> walkIdx,
                            hasMatch |-> \E i \in 1..Len(listing) :
                                            RegexMatch(prefix, listing[i])])
  /\ root' = walkIdx
  /\ walkIdx' = walkIdx + 1
  /\ mainpc' = "listed"
  /\ UNCHANGED <<images, prefix, cwd, invoked, contexts, confvars, pc, it,
                 instruments,
                 filters, telescope, filtername, preparation, registration,
                 phot, calibration, distillate, outcome, trace>>

\* variant: run_the_pipeline is called without changing directory
DispatchNoChdir ==
  /\ mainpc = "listed" /\ HasData(filenames)
  /\ invoked' = Append(invoked, root)
  /\ pc' = "entry"
  /\ mainpc' = "run"
  /\ UNCHANGED <<images, prefix, cwd, walkIdx, root, files, walked, unreadable,
                 contexts,
                 confvars, localvars, outcome, trace>>

\* os.chdir(root); run_the_pipeline(filenames)
Dispatch ==
  /\ mainpc = "listed" /\ HasData(filenames)
  /\ cwd' = root
  /\ invoked' = Append(invoked, root)
  /\ pc' = "entry"
  /\ mainpc' = "run"
  /\ UNCHANGED <<images, prefix, walkIdx, root, files, walked, unreadable,
                 contexts,
                 confvars, localvars, outcome, trace>>

\* NOTHING TO DO IN root
Skip ==
  /\ mainpc = "listed" /\ ~HasData(filenames)
  /\ mainpc' = "walk"
  /\ UNCHANGED <<images, prefix, cwd, walkIdx, root, files, walked, unreadable,
                 invoked,
                 contexts,
                 confvars, pc, localvars, outcome, trace>>

\* run_the_pipeline returned; os.chdir(_masterroot_directory)
ReturnToWalk ==
  /\ mainpc = "run" /\ pc = "returned" /\ BatchMode
  /\ cwd' = Master
  /\ mainpc' = "walk"
  /\ DropFrame
  /\ UNCHANGED <<images, prefix, walkIdx, root, files, walked, unreadable,
                 invoked,
                 contexts,
                 confvars>>

\* run_the_pipeline returned to the else branch; the script ends
ReturnToMain ==
  /\ mainpc = "run" /\ pc = "returned" /\ ~BatchMode
  /\ mainpc' = "done"
  /\ UNCHANGED <<images, prefix, cwd, walkIdx, root, files, walked, unreadable,
                 invoked,
                 contexts,
                 confvars, pc, localvars, outcome, trace>>

\* os.walk is exhausted; the script ends
WalkEnd ==
  /\ mainpc = "walk" /\ walkIdx >= 1
  /\ mainpc' = "done"
  /\ UNCHANGED <<images, prefix, cwd, walkIdx, root, files, walked, unreadable,
                 invoked,
                 contexts,
                 confvars, pc, localvars, outcome, trace>>

\* an exception or SystemExit leaves run_the_pipeline; nothing catches it
Propagate ==
  /\ mainpc = "run" /\ pc = "raised"
  /\ mainpc' = "terminated"
  /\ UNCHANGED <<images, prefix, cwd, walkIdx, root, files, walked, unreadable,
                 invoked,
                 contexts,
                 confvars, pc, localvars, outcome, trace>>

\* ------------------------------------------------------ run_the_pipeline
Min(a, b) == IF a < b THEN a ELSE b

\* variant: the message is never handed to the summary
SummaryDropped(msg) == <<>>

\* diag.insert_into_summary(summary_message), if requested
Summary(msg) == IF use_diagnostics_summary THEN <<msg>> ELSE <<>>

\* an exception (or SystemExit) leaves the function
Raise(exc, tr) ==
  /\ pc' = "raised"
  /\ outcome' = exc
  /\ trace' = tr

\* a return statement
Return(val, tr) ==
  /\ pc' = "returned"
  /\ outcome' = val
  /\ trace' = tr

\* process index, reset of the diagnostics paths, logging set up again,
\* the first two log lines, instruments, filters = [], []
Entry ==
  /\ mainpc = "run" /\ pc = "entry"
  /\ pp_process_idx' = pp_process_idx + 1
  /\ ctx' = setup_diagnostics(cwd)
  /\ rootHandlers' = basicConfig(rootHandlers, log_filename)
  /\ trace' = trace \o
       << EvReset(cwd),
          EvLog(rootHandlers', "info", "new pipeline process", ctx'.dataroot, 0),
          EvLog(rootHandlers', "info", "check for same telescope/instrument",
                Len(filenames), 0) >>
  /\ contexts' = Append(contexts, [root |-> root, ctx |-> ctx',
                                   logTarget |-> rootHandlers'])
  /\ instruments' = <<>>
  /\ filters' = <<>>
  /\ it' = 0
  /\ pc' = "inspect"
  \* the listing of line 306 is not read again once the call is entered
  /\ files' = <<>>
  /\ UNCHANGED <<images, prefix, mainpc, cwd, walkIdx, root, walked, unreadable,
                 invoked, use_diagnostics_summary, filenames,
                 telescope, filtername, preparation, registration, phot, calibration,
                 distillate, outcome>>

\* one iteration of: for idx, filename in enumerate(filenames)
Inspect ==
  /\ mainpc = "run" /\ pc = "inspect" /\ it < Len(filenames)
  /\ LET filename == filenames[it + 1] IN
       \/ \* fits.open raises IOError
          /\ filename \in unreadable
          /\ filenames' = Pop(filenames, it)
          /\ trace' = trace \o
               << EvOpen(filename, FALSE, None),
                  EvLog(rootHandlers, "error", "cannot open file", filename, 0) >>
          /\ UNCHANGED <<instruments, filters>>
       \/ \E header \in Headers :
            /\ filename \notin unreadable
            /\ instruments' = instruments \o TagsOf(header, instrument_keys)
            /\ filters' = filters \o TagsOf(header, filter_keys)
            /\ trace' = Append(trace, EvOpen(filename, TRUE, header))
            /\ UNCHANGED filenames
  /\ it' = it + 1
  /\ UNCHANGED <<mainvars, invoked, contexts, confvars, pc, telescope,
                 filtername,
                 preparation, registration, phot, calibration, distillate,
                 outcome>>

\* variant: the check counts more than two distinct instruments
MultipleInstrumentsOverTwo(insts) == Cardinality(Range(insts)) > 2

\* len(set(instruments)) > 1
MultipleInstruments(insts) == Cardinality(Range(insts)) > 1

\* variant: the check counts the filter tags, not the distinct ones
MultipleFiltersByLength(filts) == Len(filts) > 1

\* len(set(filters)) > 1
MultipleFilters(filts) == Cardinality(Range(filts)) > 1

\* for i in range(len(filenames)): logging.error('%s %s' % (filenames[i], tags[i]))
\* as far as it gets before tags[i] fails
PairLog(fns, tags) ==
  [i \in 1..Min(Len(fns), Len(tags)) |->
     EvLog(rootHandlers, "error", "pair", fns[i], tags[i])]

\* the checks after the inspection loop, up to the call of pp_prepare
Validate ==
  /\ mainpc = "run" /\ pc = "inspect" /\ it >= Len(filenames)
  /\ IF Len(filenames) = 0
     THEN Raise("IOError", trace) /\ UNCHANGED <<telescope, filtername>>
     ELSE IF Len(instruments) = 0
     THEN Raise("KeyError instrument_keys", trace)
          /\ UNCHANGED <<telescope, filtername>>
     ELSE IF Len(filters) = 0
     THEN Raise("KeyError filter_keys", trace)
          /\ UNCHANGED <<telescope, filtername>>
     ELSE IF MultipleInstruments(instruments)
     THEN \* the print statement names the undefined variable instruemnts
          Raise("NameError", trace) /\ UNCHANGED <<telescope, filtername>>
     ELSE IF instruments[1] \notin DOMAIN instrument_identifiers
     THEN Raise("KeyError instrument_identifiers", trace)
          /\ UNCHANGED <<telescope, filtername>>
     ELSE
       LET tel == instrument_identifiers[instruments[1]]
           tr1 == Append(trace, EvLog(rootHandlers, "info", "frames identified",
                                      Len(filenames), tel))
       IN
       /\ telescope' = tel
       /\ IF MultipleFilters(filters)
          THEN LET tr2 == tr1
                          \o <<EvLog(rootHandlers, "error",
                                     "multiple filters used in dataset",
                                     Range(filters), 0)>>
                          \o PairLog(filenames, filters)
               IN /\ IF Len(filters) < Len(filenames)
                     THEN Raise("IndexError", tr2)
                     ELSE Raise("SystemExit(None)", tr2)
                  /\ UNCHANGED filtername
          ELSE IF filters[1] \notin DOMAIN filter_translations(tel)
          THEN Raise("KeyError filter_translations", tr1)
               /\ UNCHANGED filtername
          ELSE /\ filtername' = filter_translations(tel)[filters[1]]
               /\ trace' = Append(tr1, EvLog(rootHandlers, "info",
                                             "frames identified",
                                             Len(filenames), filtername'))
               /\ pc' = "prepare_call"
               /\ UNCHANGED outcome
  /\ UNCHANGED <<mainvars, invoked, contexts, confvars,
                 filenames, it, instruments,
                 filters, preparation, registration, phot, calibration,
                 distillate>>

\* a stage is entered with the frames given to it
StageCall(at, stage, frames, next) ==
  /\ mainpc = "run" /\ pc = at
  /\ trace' = Append(trace, EvCall(stage, frames))
  /\ pc' = next
  /\ UNCHANGED <<mainvars, invoked, contexts, confvars, localvars, outcome>>

\* the FrameSets pp_prepare.prepare can return for the frames given
PrepareResults(fns) == {SubSeqAt(fns, S) : S \in SUBSET (1..Len(fns))}

\* the results pp_register.register can return: the frames given, split in
\* their order into the registered and the failed ones
RegisterResults(fns) ==
  { [goodfits |-> SubSeqAt(fns, S), badfits |-> SubSeqAt(fns, (1..Len(fns)) \ S)] :
      S \in SUBSET (1..Len(fns)) }

\* the results pp_photometry.photometry can return
PhotometryResults == {[n_target |-> n] : n \in {0, 1}}

\* the zeropoints pp_calibrate.calibrate can report for n frames
ZpLists(n) ==
  { [i \in 1..n |-> 0], [i \in 1..n |-> 25],
    [i \in 1..n |-> IF i = 1 THEN 0 ELSE 25] }

\* the results pp_calibrate.calibrate can return, None among them: zeropoints
\* and one catalog for each frame given
CalibrateResults(fns) ==
  {NoResult}
  \cup { [none |-> FALSE, zps |-> z,
          catalogs |-> [i \in 1..Len(fns) |-> <<"catalog", fns[i]>>]] :
            z \in ZpLists(Len(fns)) }

\* the results pp_distill.distill can return: with or without a target
\* other than the control star
DistillResults == {[target |-> t] : t \in BOOLEAN}

\* pp_prepare.prepare(filenames, obsparam, ...)
PrepareCall == StageCall("prepare_call", "prepare", filenames, "prepare_wait")

\* preparation = the value pp_prepare.prepare returns
PrepareReturn ==
  /\ mainpc = "run" /\ pc = "prepare_wait"
  /\ \E res \in PrepareResults(filenames) :
       /\ preparation' = res
       /\ trace' = Append(trace, EvRet("prepare", res))
  /\ pc' = "register_call"
  /\ UNCHANGED <<mainvars, invoked, contexts, confvars,
                 filenames, it, instruments,
                 filters, telescope, filtername, registration, phot,
                 calibration, distillate, outcome>>

\* pp_register.register(filenames, telescope, ...)
RegisterCall == StageCall("register_call", "register", filenames, "register_wait")

\* the registration summary message
RegistrationMessage(reg, fns) ==
  IF Len(reg.goodfits) = Len(fns)
  THEN EvSummary("all images registered", 0, Len(fns))
  ELSE IF Len(reg.goodfits) = 0
  THEN EvSummary("registration failed", 0, 0)
  ELSE EvSummary("registration failed for", Len(reg.badfits), Len(fns))

\* variant: the file list is not narrowed to the registered frames
AllFrames(fns, reg) == fns

\* filenames = registration['goodfits']
SurvivingFrames(fns, reg) == reg.goodfits

\* variant: the stop tests the header tag instead of the translated name
NoCalibrationByTag(name) == name = "clear"

\* stop here if filtername == None
NoCalibration(name) == name = None

\* variant: the empty-registration stop is never taken
NothingRegisteredNever(fns) == Len(fns) < 0

\* stop here if registration failed for all images
NothingRegistered(fns) == Len(fns) = 0

\* pp_register.register returns; summary; the two stops after registration
RegisterReturn ==
  /\ mainpc = "run" /\ pc = "register_wait"
  /\ \E reg \in RegisterResults(filenames) :
       LET tr1 == Append(trace, EvRet("register", reg))
                  \o Summary(RegistrationMessage(reg, filenames))
           fns == SurvivingFrames(filenames, reg)
       IN
       /\ registration' = reg
       /\ filenames' = fns
       /\ IF NoCalibration(filtername)
          THEN Return("return 0",
                      Append(tr1, EvLog(rootHandlers, "info",
                                        "Nothing else to do for this filter",
                                        filtername, 0)))
          ELSE IF NothingRegistered(fns)
          THEN Return("return 0",
                      tr1 \o << EvLog(rootHandlers, "info",
                                      "Nothing else to do for this image set",
                                      0, 0),
                                EvAbort("pp_registration") >>)
          ELSE /\ trace' = tr1
               /\ pc' = "photometry_call"
               /\ UNCHANGED outcome
  /\ UNCHANGED <<mainvars, invoked, contexts, confvars,
                 it, instruments, filters,
                 telescope, filtername, preparation, phot, calibration,
                 distillate>>

\* variant: the photometry stage is left out
PhotometrySkipped ==
  StageCall("photometry_call", "calibrate", filenames, "calibrate_wait")

\* pp_photometry.photometry(filenames, ...)
PhotometryCall ==
  StageCall("photometry_call", "photometry", filenames, "photometry_wait")

\* pp_photometry.photometry returns; summary
PhotometryReturn ==
  /\ mainpc = "run" /\ pc = "photometry_wait"
  /\ \E res \in PhotometryResults :
       /\ phot' = res
       /\ trace' = Append(trace, EvRet("photometry", res))
                   \o Summary(IF res.n_target > 0
                              THEN EvSummary("based on target and background", 0, 0)
                              ELSE EvSummary("based on background only", 0, 0))
  /\ pc' = "calibrate_call"
  /\ UNCHANGED <<mainvars, invoked, contexts, confvars,
                 filenames, it, instruments,
                 filters, telescope, filtername, preparation, registration,
                 calibration, distillate, outcome>>

\* pp_calibrate.calibrate(filenames, minstars, manfilter, ...)
CalibrateCall ==
  StageCall("calibrate_call", "calibrate", filenames, "calibrate_wait")

\* all(zp==0 for zp in zps)
AllZero(zps) == \A i \in 1..Len(zps) : zps[i] = 0

\* variant: a missing calibration is not noticed
CalibrationFailedNever(cal) == FALSE

\* calibration == None
CalibrationFailed(cal) == cal.none

\* pp_calibrate.calibrate returns; abort on None, else summary
CalibrateReturn ==
  /\ mainpc = "run" /\ pc = "calibrate_wait"
  /\ \E cal \in CalibrateResults(filenames) :
       /\ calibration' = cal
       /\ IF CalibrationFailed(cal)
          THEN Raise("SystemExit(1)",
                     trace \o << EvRet("calibrate", cal),
                                 EvLog(rootHandlers, "error",
                                       "Nothing to do! Error in pp_calibrate",
                                       0, 0),
                                 EvAbort("pp_calibrate") >>)
          ELSE /\ trace' = Append(trace, EvRet("calibrate", cal))
                           \o Summary(IF AllZero(cal.zps)
                                      THEN EvSummary("no phot. calibration", 0, 0)
                                      ELSE EvSummary("average zeropoint", 0, 0))
               /\ pc' = "distill_call"
               /\ UNCHANGED outcome
  /\ UNCHANGED <<mainvars, invoked, contexts, confvars,
                 filenames, it, instruments,
                 filters, telescope, filtername, preparation, registration,
                 phot, distillate>>

\* pp_distill.distill(calibration['catalogs'], ...)
DistillCall ==
  StageCall("distill_call", "distill", calibration.catalogs, "distill_wait")

\* pp_distill.distill returns; summary; the function ends
DistillReturn ==
  /\ mainpc = "run" /\ pc = "distill_wait"
  /\ \E res \in DistillResults :
       /\ distillate' = res
       /\ Return("return None",
                 Append(trace, EvRet("distill", res))
                 \o Summary(IF res.target
                            THEN EvSummary("average target brightness", 0, 0)
                            ELSE EvSummary("no primary target extracted", 0, 0))
                 \o <<EvLog(rootHandlers, "info", "successfully done", 0, 0)>>)
  /\ UNCHANGED <<mainvars, invoked, contexts, confvars,
                 filenames, it, instruments,
                 filters, telescope, filtername, preparation, registration,
                 phot, calibration>>

Next ==
  \/ MainBatch \/ MainSingle
  \/ WalkNext \/ Dispatch \/ Skip \/ ReturnToWalk \/ ReturnToMain
  \/ WalkEnd \/ Propagate
  \/ Entry \/ Inspect \/ Validate
  \/ PrepareCall \/ PrepareReturn
  \/ RegisterCall \/ RegisterReturn
  \/ PhotometryCall \/ PhotometryReturn
  \/ CalibrateCall \/ CalibrateReturn
  \/ DistillCall \/ DistillReturn

Spec == Init /\ [][Next]_vars

\* ------------------------------------------------- reading the run's trace
At(kind) == {i \in 1..Len(trace) : trace[i].e = kind}
CallsOf(stage) == {i \in At("call") : trace[i].stage = stage}
RetsOf(stage) == {i \in At("ret") : trace[i].stage = stage}
Aborted(name) == \E i \in At("abort") : trace[i].name = name
IsStageEvent(ev) == ev.e \in {"call", "ret"}
StageEvents == SelectSeq(trace, IsStageEvent)
StageOrder == <<"prepare", "register", "photometry", "calibrate", "distill">>
LaterStages == {"photometry", "calibrate", "distill"}
LaterStageInvoked == \E i \in At("call") : trace[i].stage \in LaterStages
RunEnded == pc \in {"returned", "raised"}

\* the tags the headers of the opened files hold under the given keys
InspectedTags(keys) ==
  UNION { {trace[i].header[keys[k]] : k \in 1..Len(keys)} :
            i \in {j \in At("open") : trace[j].ok} } \ {Absent}

RECURSIVE IsSubsequence(_, _)
IsSubsequence(a, b) ==
  IF Len(a) = 0 THEN TRUE
  ELSE IF Len(b) = 0 THEN FALSE
  ELSE IF Head(a) = Head(b) THEN IsSubsequence(Tail(a), Tail(b))
  ELSE IsSubsequence(a, Tail(b))

\* ------------------------------------------------------------------ claims
\* C1: when the opened files hold two or more distinct instrument tags, no
\* stage is ever invoked (pp_prepare.prepare in particular) and the run ends
\* inside the checks that follow the inspection loop.
C1_MixedInstrumentsNeverPrepared ==
  Cardinality(InspectedTags(instrument_keys)) >= 2 =>
    /\ At("call") = {}
    /\ pc \in {"inspect", "raised"}
    /\ pc = "raised" => outcome \in {"NameError", "KeyError filter_keys"}

C1_Witness ==
  /\ Cardinality(InspectedTags(instrument_keys)) >= 2
  /\ pc = "raised" /\ outcome = "NameError"

\* pp_register.register returned no registered frame in this run
RegisteredNone ==
  \E j \in RetsOf("register") : Len(trace[j].result.goodfits) = 0

\* C2 as stated: when Register returns zero registered frames, Photometer,
\* Calibrate and Distill are never invoked and the registration abort is
\* issued before the run ends.
C2_ZeroRegisteredAlwaysAborts ==
  RegisteredNone =>
    /\ ~LaterStageInvoked
    /\ RunEnded => Aborted("pp_registration")

\* C2 amended: when Register returns zero registered frames, Photometer,
\* Calibrate and Distill are never invoked and the run returns 0; the
\* registration abort is issued exactly when the filter name is not None.
C2_ZeroRegisteredStops ==
  RegisteredNone =>
    /\ ~LaterStageInvoked
    /\ pc = "returned" /\ outcome = "return 0"
    /\ Aborted("pp_registration") <=> filtername # None

C2_Witness ==
  /\ RegisteredNone /\ filtername # None
  /\ pc = "returned" /\ Aborted("pp_registration")

\* C3: when the filter name resolves to None, Prepare and Register are each
\* invoked once, in that order, then the run returns normally (return 0, no
\* diagnostics abort, no exit), and Photometer, Calibrate and Distill are
\* never invoked.
C3_NoCalibrationStopsAfterRegister ==
  filtername = None =>
    /\ ~LaterStageInvoked
    /\ pc \in {"prepare_call", "prepare_wait", "register_call",
               "register_wait", "returned"}
    /\ pc = "returned" =>
         /\ outcome = "return 0"
         /\ At("abort") = {}
         /\ [j \in 1..Len(StageEvents) |-> StageEvents[j].stage]
              = <<"prepare", "prepare", "register", "register">>

C3_Witness ==
  /\ filtername = None /\ pc = "returned"
  /\ CallsOf("register") # {}

C5_StagesOnceInOrder ==
  /\ Len(StageEvents) <= 2 * Len(StageOrder)
  /\ \A j \in 1..Len(StageEvents) :
       /\ StageEvents[j].stage = StageOrder[(j + 1) \div 2]
       /\ StageEvents[j].e = IF j % 2 = 1 THEN "call" ELSE "ret"

C5_Witness ==
  /\ pc = "returned" /\ outcome = "return None"
  /\ Len(StageEvents) = 10

\* the roots of the walked directories that hold a matching file
RECURSIVE RootsWithMatch(_)
RootsWithMatch(w) ==
  IF Len(w) = 0 THEN <<>>
  ELSE IF Head(w).hasMatch THEN <<Head(w).root>> \o RootsWithMatch(Tail(w))
  ELSE RootsWithMatch(Tail(w))

\* the directories os.walk has yielded and the loop body has dealt with
Handled == IF mainpc = "listed" THEN SubSeq(walked, 1, Len(walked) - 1) ELSE walked

\* C6: in batch mode run_the_pipeline is called once for each walked
\* directory that holds a matching file, in the order of the walk, with that
\* directory's matching names in ascending order, and never for a directory
\* without a matching file, which only moves the walk on.
C6_OneRunPerDirectoryWithData ==
  BatchMode =>
    /\ invoked = RootsWithMatch(Handled)
    /\ pc = "entry" =>
         /\ Range(filenames) = {f \in Range(files) : RegexMatch(prefix, f)}
         /\ \A i, j \in 1..Len(filenames) :
              i < j => StrLess(filenames[i], filenames[j])
    /\ mainpc = "terminated" => walked[Len(walked)].hasMatch

C6_Witness ==
  /\ BatchMode /\ mainpc = "done"
  /\ Len(walked) = 2 /\ Len(invoked) = 1

\* C7 as stated: in batch mode the working directory is the master root
\* again after every call of run_the_pipeline, however the call ended.
C7_WorkingDirectoryRestored ==
  (BatchMode /\ mainpc \in {"walk", "listed", "done", "terminated"}) =>
    cwd = Master

\* the run of the current directory failed or aborted
RunFailed == pc = "raised" \/ (pc = "returned" /\ At("abort") # {})

\* C8 as stated: in batch mode a run that failed or aborted is followed by
\* the walk going on, never by the end of the process.
C8_FailureDoesNotStopTheWalk ==
  [][(BatchMode /\ mainpc = "run" /\ RunFailed) => mainpc' # "terminated"]_vars

\* C9: every call of run_the_pipeline resets the run context exactly once,
\* in the working directory of the run, before any log line is written and
\* before any stage is invoked.
C9_ContextResetOnceFirst ==
  /\ pc = "entry" => (trace = <<>> /\ Len(contexts) = Len(invoked) - 1)
  /\ pc \notin {"idle", "entry"} =>
       /\ Cardinality(At("reset")) = 1
       /\ trace[1].e = "reset"
       /\ trace[1].cwd = root
       /\ Len(contexts) = Len(invoked)
       /\ contexts[Len(contexts)].root = root
       /\ contexts[Len(contexts)].ctx = ctx

C9_Witness ==
  /\ BatchMode /\ root # Master
  /\ pc = "returned" /\ outcome = "return None"

\* C10 as stated: the runs of two different directories have no run-context
\* field in common: data root, diagnostics root, output files, log target.
C10_ContextsDisjoint ==
  \A a, b \in 1..Len(contexts) :
    contexts[a].root # contexts[b].root =>
      /\ contexts[a].ctx.dataroot # contexts[b].ctx.dataroot
      /\ contexts[a].ctx.diagroot # contexts[b].ctx.diagroot
      /\ contexts[a].ctx.index_filename # contexts[b].ctx.index_filename
      /\ contexts[a].ctx.reg_filename # contexts[b].ctx.reg_filename
      /\ contexts[a].ctx.cal_filename # contexts[b].ctx.cal_filename
      /\ contexts[a].ctx.res_filename # contexts[b].ctx.res_filename
      /\ contexts[a].logTarget # contexts[b].logTarget

\* the stage a summary message reports on
StageOfSummary(kind) ==
  IF kind \in {"all images registered", "registration failed",
               "registration failed for"} THEN "register"
  ELSE IF kind \in {"based on target and background",
                    "based on background only"} THEN "photometry"
  ELSE IF kind \in {"no phot. calibration", "average zeropoint"} THEN "calibrate"
  ELSE "distill"

IsSummary(ev) == ev.e = "summary"

\* the stages the summary messages of this run report on, in order
SummaryStages ==
  LET msgs == SelectSeq(trace, IsSummary)
  IN [j \in 1..Len(msgs) |-> StageOfSummary(msgs[j].kind)]

\* a reporting stage returned, calibration with a result
IsCompletion(ev) ==
  /\ ev.e = "ret"
  /\ ev.stage \in {"register", "photometry", "calibrate", "distill"}
  /\ ev.stage = "calibrate" => ~ev.result.none

\* the reporting stages that completed in this run, in order
CompletedStages ==
  LET rets == SelectSeq(trace, IsCompletion)
  IN [j \in 1..Len(rets) |-> rets[j].stage]

\* C11 as stated: in every run the summary receives exactly one message for
\* each of Register, Photometer, Calibrate, Distill that completed, in stage
\* order, and none for a stage that did not.
C11_OneSummaryPerCompletedStage == SummaryStages = CompletedStages

\* C11 amended: when the diagnostics summary is requested the summary
\* receives exactly one message per completed reporting stage, in stage
\* order; when it is not requested it receives none.
C11_SummaryWhenRequested ==
  SummaryStages = IF use_diagnostics_summary THEN CompletedStages ELSE <<>>

C11_Witness ==
  /\ use_diagnostics_summary
  /\ pc = "returned" /\ outcome = "return None"
  /\ SummaryStages = <<"register", "photometry", "calibrate", "distill">>

\* the files that fits.open failed on in this run, in the order of the trace
Dropped ==
  LET failed == SelectSeq(trace, LAMBDA ev : ev.e = "open" /\ ~ev.ok)
  IN  [i \in 1..Len(failed) |-> failed[i].file]

\* the file list run_the_pipeline was called with: the command line's, or in
\* batch mode the sorted list of line 309, which until registration narrows
\* it is made of the retained files and the files dropped at line 87
Given == IF BatchMode THEN sorted(filenames \o Dropped) ELSE images

Readable(f) == f \notin unreadable

\* the inspection loop is over and filenames is still the inspected list
InspectionDone ==
  \/ pc = "inspect" /\ it >= Len(filenames)
  \/ pc \in {"prepare_call", "prepare_wait", "register_call", "register_wait"}
  \/ pc = "raised" /\ outcome # "SystemExit(1)"

\* fits.open succeeded on f in this run
Inspected(f) == \E j \in At("open") : trace[j].file = f /\ trace[j].ok

\* C12 as stated: after the inspection the retained list is the input files
\* that can be opened, in their order, and each of them was opened and
\* inspected.
C12_RetainedAreTheReadable ==
  InspectionDone =>
    /\ filenames = SelectSeq(Given, Readable)
    /\ \A f \in Range(filenames) : Inspected(f)

\* tag was read under one of the keys from the header of f
TagReadFrom(f, keys, tag) ==
  \E j \in At("open") :
    /\ trace[j].file = f /\ trace[j].ok
    /\ \E k \in 1..Len(keys) : trace[j].header[keys[k]] = tag

\* C13 as stated: after the inspection the instrument tags and the filter
\* tags are as many as the retained files, and the i-th of each was read
\* from the header of the i-th retained file.
C13_TagsAlignedWithFiles ==
  InspectionDone =>
    /\ Len(instruments) = Len(filenames)
    /\ Len(filters) = Len(filenames)
    /\ \A i \in 1..Len(filenames) :
         /\ TagReadFrom(filenames[i], instrument_keys, instruments[i])
         /\ TagReadFrom(filenames[i], filter_keys, filters[i])

\* C14 as stated: when no file of the input can be opened the run ends with
\* the IOError 'cannot find any data', not with a KeyError, and no stage is
\* invoked.
C14_NothingReadableIsEmptyBatch ==
  (Range(Given) \subseteq unreadable /\ InspectionDone /\ pc # "inspect") =>
    /\ pc = "raised" /\ outcome = "IOError"
    /\ At("call") = {}

\* pp_calibrate.calibrate returned None in this run
CalibratedNone == \E j \in RetsOf("calibrate") : trace[j].result.none

\* C15: when Calibrate returns None the calibration abort is issued, the
\* process exit is requested with status 1, Distill is never invoked and no
\* calibration or distillation message reaches the summary; the run does not
\* return, unlike the stop for a None filter name.
C15_NoCalibrationResultIsFatal ==
  CalibratedNone =>
    /\ pc = "raised" /\ outcome = "SystemExit(1)"
    /\ Aborted("pp_calibrate")
    /\ CallsOf("distill") = {}
    /\ \A j \in 1..Len(SummaryStages) :
         SummaryStages[j] \notin {"calibrate", "distill"}
    /\ filtername # None

C15_Witness ==
  /\ CalibratedNone /\ pc = "raised"
  /\ use_diagnostics_summary /\ Len(SummaryStages) = 2

\* the one instrument tag and the one filter tag all opened headers share,
\* both known to the registries
SharedTags ==
  /\ Cardinality(InspectedTags(instrument_keys)) = 1
  /\ Cardinality(InspectedTags(filter_keys)) = 1
  /\ \A t \in InspectedTags(instrument_keys) :
       /\ t \in DOMAIN instrument_identifiers
       /\ \A f \in InspectedTags(filter_keys) :
            f \in DOMAIN filter_translations(instrument_identifiers[t])

\* C16: when all opened files share one instrument tag and one filter tag,
\* both registered, the checks after the inspection reject nothing: the
\* telescope and the filter name are the ones the registries give for the
\* two tags and pp_prepare.prepare is the next thing invoked.
C16_HomogeneousBatchAccepted ==
  (SharedTags /\ InspectionDone /\ pc # "inspect") =>
    /\ pc # "raised"
    /\ \A t \in InspectedTags(instrument_keys) :
         /\ telescope = instrument_identifiers[t]
         /\ \A f \in InspectedTags(filter_keys) :
              filtername = filter_translations(telescope)[f]
    /\ pc = "prepare_call" \/ Cardinality(CallsOf("prepare")) = 1

C16_Witness ==
  /\ SharedTags /\ pc = "prepare_wait"
  /\ Len(filenames) = 2 /\ Len(instruments) = 2 /\ Len(filters) = 2

\* C17 as stated: Register is given the FrameSet Prepare returned, and each
\* later stage the frames that survived the stage before it.
C17_RegisterGetsPreparedFrames ==
  \A i \in CallsOf("register") : \A j \in RetsOf("prepare") :
    trace[i].frames = trace[j].result

RECURSIVE FirstTag(_, _)
\* the value of the first of the keys that the header holds, if any
FirstTag(header, keys) ==
  IF Len(keys) = 0 THEN <<>>
  ELSE IF header[Head(keys)] # Absent THEN <<header[Head(keys)]>>
  ELSE FirstTag(header, Tail(keys))

RECURSIVE FirstTags(_, _)
\* one tag for each opened file of the trace: that of its first present key
FirstTags(tr, keys) ==
  IF Len(tr) = 0 THEN <<>>
  ELSE IF Head(tr).e = "open" /\ Head(tr).ok
       THEN FirstTag(Head(tr).header, keys) \o FirstTags(Tail(tr), keys)
       ELSE FirstTags(Tail(tr), keys)

\* C18 as stated: each opened file contributes one instrument tag and one
\* filter tag, the value of the first candidate key its header holds; other
\* candidate keys present in the same header are not used.
C18_FirstPresentKeyOnly ==
  /\ instruments = FirstTags(trace, instrument_keys)
  /\ filters = FirstTags(trace, filter_keys)

LowerTable == {<<"F", "f">>, <<"S", "s">>, <<"T", "t">>}

\* the lower-case form of a character
LowerChar(c) ==
  IF \E p \in LowerTable : p[1] = c
  THEN (CHOOSE p \in LowerTable : p[1] = c)[2]
  ELSE c

Lower(s) == [i \in 1..Len(s) |-> LowerChar(s[i])]

Extensions == {<<"f", "i", "t", "s">>, <<"f", "t", "s">>}

\* the name starts with the prefix and ends with fits or fts, in any case
IsPrefixedImage(pre, s) ==
  /\ Len(s) >= Len(pre)
  /\ Lower(SubSeq(s, 1, Len(pre))) = Lower(pre)
  /\ \E ext \in Extensions :
       /\ Len(s) >= Len(ext)
       /\ Lower(SubSeq(s, Len(s) - Len(ext) + 1, Len(s))) = ext

\* C19 as stated: in batch mode the names selected in a directory are the
\* ones that start with the prefix and end with a fits or fts extension in
\* any case, and no other.
C19_SelectedArePrefixedImages ==
  (BatchMode /\ mainpc = "listed") =>
    Range(filenames) = {f \in Range(files) : IsPrefixedImage(prefix, f)}

\* the run ended in one of the two exits for mixed instruments or filters
RejectedHeterogeneous ==
  /\ pc = "raised"
  /\ outcome \in {"NameError", "SystemExit(None)", "IndexError"}

\* the error log holds a (file, tag) line for f
PairLogged(f) ==
  \E j \in At("log") :
    /\ trace[j].lvl = "error" /\ trace[j].msg = "pair"
    /\ trace[j].a = f

\* C20 as stated: when a batch is rejected for mixed instruments or mixed
\* filters, the error log holds a (file, tag) line for every retained file
\* before the run ends.
C20_PairsLoggedBeforeRejection ==
  RejectedHeterogeneous => \A i \in 1..Len(filenames) : PairLogged(filenames[i])
====
